---- MODULE Spec2Model ----
(***************************************************************************)
(* Voice-chat relay (quzao-backend): one client connection of              *)
(* websocket_voice_chat (src/main.py) driving a Recognition Session        *)
(* (src/asr_service.py), a Generation Stream (src/llm_service.py) and a    *)
(* Synthesis Session (src/tts_service.py).                                 *)
(*                                                                         *)
(* Text is a sequence of one-character strings; Python index i is TLA+     *)
(* index i+1.  The full-width punctuation marks are written by name        *)
(* ("CN_PERIOD", ...), each standing for one character.                    *)
(***************************************************************************)
EXTENDS Integers, Sequences, FiniteSets, TLC

VARIABLES
    pc,             \* position of the handler coroutine
    asr_client,     \* index into asrS of the current AsrClient, 0 = None
    tts_client,     \* index into ttsS of the current TTSClient, 0 = None
    asrS,           \* every Recognition Session opened on this connection
    ttsS,           \* every Synthesis Session opened on this connection
    session_closed, \* aiohttp.ClientSession.closed
    asr_result,     \* main.py asr_result
    llm_buffer,     \* main.py llm_buffer
    pending,        \* argument of the running synthesize_and_send call
    out,            \* messages sent to the client, current turn
    exc,            \* text of the exception caught at main.py:347, "" = none
    client_open,    \* the client websocket still accepts sends
    heard,          \* last non-empty text yielded by receive_results this turn
    llm_full,       \* concatenation of the deltas yielded this turn
    deltas,         \* number of deltas yielded this turn
    gen_calls,      \* generate_stream calls of this turn
    synth_calls,    \* synthesize calls of this turn
    yielded,        \* audio chunks yielded by synthesize this turn
    last_op,        \* last send_audio / send_end call on a Recognition Session
    turn,           \* number of the current turn
    used,           \* number of inputs that count against MaxEvents
    voice_id,       \* main.py global voice_id, shared by all connections
    cut,            \* input and result of one segmenter call (SpecCut)
    llm,            \* an LLMClient on its own: conversation and call state (SpecLlm)
    codec,          \* two frames, their encodings and what the parser returns (SpecCodec)
    tts             \* one synthesize call on its own: frames taken, audio yielded (SpecTts)

vars == << pc, asr_client, tts_client, asrS, ttsS, session_closed, asr_result,
           llm_buffer, pending, out, exc, client_open, heard, llm_full, deltas,
           gen_calls, synth_calls, yielded, last_op, turn, used, voice_id, cut,
           llm, codec, tts >>

orchVars == << pc, asr_client, tts_client, asrS, ttsS, session_closed,
               asr_result, llm_buffer, pending, out, exc, client_open, heard,
               llm_full, deltas, gen_calls, synth_calls, yielded, last_op,
               turn, used, voice_id >>

\* the state of the components taken on their own, which the handler of one
\* connection leaves alone
aside == << cut, llm, codec, tts >>

-----------------------------------------------------------------------------
(* Bounds of the model *)

MaxTurns == 2
MaxEvents == 4
MaxCutLen == 24
MaxTarget == 22
MaxCalls == 2
MaxDeltas == 2
MaxFrames == 3

(* Program constants *)

CutThreshold == 100
TargetLen == 50
SearchWindow == 20

CLIENT_FULL_REQUEST == 1
CLIENT_AUDIO_ONLY_REQUEST == 2
POS_SEQUENCE == 1
NEG_WITH_SEQUENCE == 3
TTS_AUDIO == 11
TTS_FRONTEND == 12
TTS_ERROR == 15
SERVER_FULL_RESPONSE == 9
SERVER_ERROR_RESPONSE == 15
GZIP == 1
JSON == 1

-----------------------------------------------------------------------------
(* Helpers *)

Min2(a, b) == IF a <= b THEN a ELSE b
Max2(a, b) == IF a >= b THEN a ELSE b
SetMin(S) == CHOOSE x \in S : \A y \in S : x <= y
SetMax(S) == CHOOSE x \in S : \A y \in S : x >= y
Rep(c, n) == [i \in 1..n |-> c]
Last(s) == s[Len(s)]
IsPrefix(s, t) == Len(s) <= Len(t) /\ SubSeq(t, 1, Len(s)) = s
Count(s, ty) == Cardinality({i \in 1..Len(s) : s[i].type = ty})

-----------------------------------------------------------------------------
(* Sentence segmenter: main.py find_nearest_punctuation *)

Punctuations ==
    {"CN_PERIOD", "CN_EXCL", "CN_QUESTION", "CN_SEMI", "CN_COMMA",
     ".", "!", "?", ";", ","}

CutExclusive(text, target_len) ==
    IF Len(text) <= target_len THEN Len(text)
    ELSE LET search_start == Max2(0, target_len - SearchWindow)
             search_end == Min2(Len(text), target_len + SearchWindow)
             fwd == {i \in target_len..(search_end - 1) :
                        i < Len(text) /\ text[i + 1] \in Punctuations}
             bwd == {i \in search_start..target_len :
                        i < Len(text) /\ text[i + 1] \in Punctuations}
         IN  IF fwd # {} THEN SetMin(fwd) + 1
             ELSE IF bwd # {} THEN SetMax(bwd) + 1
             ELSE Min2(target_len, Len(text) - 1) + 1

CutBackwardFirst(text, target_len) ==
    IF Len(text) <= target_len THEN Len(text) - 1
    ELSE LET search_start == Max2(0, target_len - SearchWindow)
             search_end == Min2(Len(text), target_len + SearchWindow)
             fwd == {i \in target_len..(search_end - 1) :
                        i < Len(text) /\ text[i + 1] \in Punctuations}
             bwd == {i \in search_start..target_len :
                        i < Len(text) /\ text[i + 1] \in Punctuations}
         IN  IF bwd # {} THEN SetMax(bwd)
             ELSE IF fwd # {} THEN SetMin(fwd)
             ELSE Min2(target_len, Len(text) - 1)

CutDropsLast(text, target_len) ==
    IF Len(text) <= target_len THEN Len(text) - 2
    ELSE LET search_start == Max2(0, target_len - SearchWindow)
             search_end == Min2(Len(text), target_len + SearchWindow)
             fwd == {i \in target_len..(search_end - 1) :
                        i < Len(text) /\ text[i + 1] \in Punctuations}
             bwd == {i \in search_start..target_len :
                        i < Len(text) /\ text[i + 1] \in Punctuations}
         IN  IF fwd # {} THEN SetMin(fwd)
             ELSE IF bwd # {} THEN SetMax(bwd)
             ELSE Min2(target_len, Len(text) - 1)

find_nearest_punctuation(text, target_len) ==
    IF Len(text) <= target_len THEN Len(text) - 1
    ELSE LET search_start == Max2(0, target_len - SearchWindow)
             search_end == Min2(Len(text), target_len + SearchWindow)
             \* first loop: range(target_len, search_end), first hit
             fwd == {i \in target_len..(search_end - 1) :
                        i < Len(text) /\ text[i + 1] \in Punctuations}
             \* second loop: range(target_len, search_start - 1, -1), first hit
             bwd == {i \in search_start..target_len :
                        i < Len(text) /\ text[i + 1] \in Punctuations}
         IN  IF fwd # {} THEN SetMin(fwd)
             ELSE IF bwd # {} THEN SetMax(bwd)
             ELSE Min2(target_len, Len(text) - 1)

\* `llm_buffer[:cut_pos + 1]` (main.py:322); a negative stop counts from the end
Sentence(text, cut_pos) ==
    SubSeq(text, 1, IF cut_pos + 1 >= 0 THEN Min2(cut_pos + 1, Len(text))
                    ELSE Max2(0, Len(text) + cut_pos + 1))

RemainderSkipsOne(text, cut_pos) == SubSeq(text, cut_pos + 3, Len(text))

\* `llm_buffer[cut_pos + 1:]` (main.py:324)
Remainder(text, cut_pos) ==
    SubSeq(text, (IF cut_pos + 1 >= 0 THEN Min2(cut_pos + 1, Len(text))
                  ELSE Max2(0, Len(text) + cut_pos + 1)) + 1, Len(text))

-----------------------------------------------------------------------------
(* Inputs the environment can deliver *)

\* generation deltas (llm_service.py:51-54 yields only non-empty deltas)
D_Short == <<"H", "i", " ", "t", "h", "e", "r", "e", ",", " ", "y", "o", "u", ".">>
\* 130 characters, punctuation at indices 44, 49, 52 and 60
D130 == Rep("a", 44) \o <<",">> \o Rep("a", 4) \o <<"CN_COMMA">>
        \o Rep("a", 2) \o <<"CN_PERIOD">> \o Rep("b", 7) \o <<"!">>
        \o Rep("b", 69)
Deltas == {D_Short, D130}

\* result codes of recognition frames: success, and one that is not
DefaultCode == 20000000
ErrorCode == 45000001

\* transcripts carried by recognition result frames
T_Hello == <<"h", "e", "l", "l", "o">>
T_Bye == <<"b", "y", "e">>
AsrTexts == {<<>>, T_Hello, T_Bye}

\* byte lengths of inbound audio messages (the payload is opaque)
AudioSizes == {0, 1, 3200}

\* what `async for msg in self.ws` of receive_results can deliver: a BINARY
\* frame reduced to what _parse_response reads, or the channel closing
AsrEvents ==
    [kind : {"binary"}, flags : {POS_SEQUENCE, NEG_WITH_SEQUENCE}, text : AsrTexts,
     code : {DefaultCode, ErrorCode}]
    \cup {[kind |-> "closed", flags |-> 0, text |-> <<>>, code |-> 0]}

\* what `async for msg in self.ws` of synthesize can deliver
\* has_audio: the bytes after the payload size are not empty; ok: the payload
\* of an error frame decompresses and decodes
TtsEv(kind, mtype, flags, seq, has_audio, ok) ==
    [kind |-> kind, mtype |-> mtype, flags |-> flags, seq |-> seq,
     has_audio |-> has_audio, ok |-> ok]

TtsEvents ==
    {TtsEv("binary", TTS_AUDIO, 1, 1, TRUE, TRUE),
     TtsEv("binary", TTS_AUDIO, 3, -1, TRUE, TRUE),
     TtsEv("binary", TTS_AUDIO, 3, -1, FALSE, TRUE),
     TtsEv("binary", TTS_AUDIO, 1, -2, TRUE, TRUE),
     TtsEv("binary", TTS_AUDIO, 3, 2, TRUE, TRUE),
     TtsEv("binary", TTS_AUDIO, 1, 2, FALSE, TRUE),
     TtsEv("binary", TTS_AUDIO, 0, 0, FALSE, TRUE),
     TtsEv("binary", TTS_ERROR, 0, 0, FALSE, TRUE),
     TtsEv("binary", TTS_ERROR, 0, 0, FALSE, FALSE),
     TtsEv("binary", TTS_FRONTEND, 0, 0, FALSE, TRUE),
     TtsEv("binary", SERVER_FULL_RESPONSE, 0, 0, FALSE, TRUE),
     TtsEv("closed", 0, 0, 0, FALSE, TRUE)}

\* voice codes of data/voice_id.txt; the first one is selected when the
\* process starts (main.py:121-122) and is current when the connection starts
Voices == {"voice A", "voice B"}
VoiceAtStart == "voice A"

\* the audio the synthesis service returns: chunk k of the call-th request
\* of this turn, sent on session sess
AudioOf(sess, call, k) == <<sess, call, k>>

\* base64.b64encode(audio_chunk).decode()  (main.py:306)
B64(chunk) == <<"b64">> \o chunk

-----------------------------------------------------------------------------
(* Initial state: main.py:195-213, at the top of the receive loop *)

NoOp == [op |-> "none", pre |-> 0, post |-> 0, emitted |-> 0, size |-> 0, ok |-> TRUE]
\* text, src: the last non-empty text a frame of this turn's drain carried and
\* the session it came from; bad: a frame with a non-success code was taken;
\* last: how the latest step of the drain ended
NoHeard == [text |-> <<>>, src |-> 0, bad |-> FALSE, last |-> "none"]
\* ended: how the receive loop of the latest synthesize call was left by a
\* channel close or an error frame, "none" otherwise
NoPending == [text |-> <<>>, phase |-> "none", ended |-> "none"]
CutIdle == [text |-> <<>>, t |-> 0, done |-> FALSE, res |-> 0]
NoFrame == [kind |-> "none", seq |-> 0, audio |-> <<>>, is_last |-> FALSE]
NoResult == [code |-> 0, is_last |-> FALSE, text |-> <<>>]
CodecIdle == [st |-> "idle", a |-> NoFrame, b |-> NoFrame, bytes_a |-> <<>>,
              bytes_b |-> <<>>, res_a |-> NoResult, res_b |-> NoResult]
\* a connected TTSClient before synthesize is called
TtsIdle == [st |-> "idle", requests |-> 0, log |-> <<>>]
\* LLMClient.__init__: self.messages = [] (llm_service.py:13), no call running
LlmIdle == [messages |-> <<>>, st |-> "idle", before |-> <<>>, user |-> <<>>,
            full |-> <<>>, n |-> 0, calls |-> 0, last |-> "none"]

InitOrch ==
    /\ pc = "recv"
    /\ asr_client = 0
    /\ tts_client = 0
    /\ asrS = <<>>
    /\ ttsS = <<>>
    /\ session_closed = FALSE
    /\ asr_result = <<>>
    /\ llm_buffer = <<>>
    /\ pending = NoPending
    /\ out = <<>>
    /\ exc = ""
    /\ client_open = TRUE
    /\ heard = NoHeard
    /\ llm_full = <<>>
    /\ deltas = 0
    /\ gen_calls = 0
    /\ synth_calls = <<>>
    /\ yielded = <<>>
    /\ last_op = NoOp
    /\ turn = 1
    /\ used = 0
    /\ voice_id = VoiceAtStart

Init == InitOrch /\ cut = CutIdle /\ llm = LlmIdle /\ codec = CodecIdle
        /\ tts = TtsIdle

-----------------------------------------------------------------------------
(* Recognition Session: src/asr_service.py *)

\* AsrClient.__init__ and the ws_connect of connect(): seq = 1, channel open
\* consumed counts the messages connect() has taken with ws.receive()
NewAsrSession == [seq |-> 1, closed |-> FALSE, sent |-> <<>>, consumed |-> 0]

\* _build_full_request: header flags POS_SEQUENCE, struct.pack('>i', self.seq)
BuildFullRequest(seq) ==
    [mtype |-> CLIENT_FULL_REQUEST, flags |-> POS_SEQUENCE, seq |-> seq,
     payload |-> "gzip(json)"]

BuildAudioRequestUnsigned(seq, size, is_last) ==
    [mtype |-> CLIENT_AUDIO_ONLY_REQUEST,
     flags |-> IF is_last THEN NEG_WITH_SEQUENCE ELSE POS_SEQUENCE,
     seq |-> seq,
     payload |-> IF size = 0 THEN "gzip(empty)" ELSE "gzip(audio)"]

\* _build_audio_request
BuildAudioRequest(seq, size, is_last) ==
    [mtype |-> CLIENT_AUDIO_ONLY_REQUEST,
     flags |-> IF is_last THEN NEG_WITH_SEQUENCE ELSE POS_SEQUENCE,
     seq |-> IF is_last THEN -seq ELSE seq,
     payload |-> IF size = 0 THEN "gzip(empty)" ELSE "gzip(audio)"]

\* a frame put on the channel, with the turn in which it was sent
Emit(s, frame) == [s EXCEPT !.sent = Append(@, [frame |-> frame, turn |-> turn])]

\* connect(), after ws_connect: send the full request, self.seq += 1,
\* consume one response
AsrHelloKeepsCounter(s) ==
    [Emit(s, BuildFullRequest(s.seq)) EXCEPT !.consumed = @ + 1]

AsrHello(s) ==
    [Emit(s, BuildFullRequest(s.seq)) EXCEPT !.seq = @ + 1, !.consumed = @ + 1]

SendAudioCountsEmpty(s, size) ==
    IF size = 0 THEN [s EXCEPT !.seq = @ + 1]
    ELSE [Emit(s, BuildAudioRequest(s.seq, size, FALSE)) EXCEPT !.seq = @ + 1]

\* send_audio that returns: no-op on an empty payload
SendAudio(s, size) ==
    IF size = 0 THEN s
    ELSE [Emit(s, BuildAudioRequest(s.seq, size, FALSE)) EXCEPT !.seq = @ + 1]

\* send_end that returns
SendEnd(s) == Emit(s, BuildAudioRequest(s.seq, 0, TRUE))

AsrParseLastFirst(ev) ==
    [text |-> IF (ev.flags \div 2) % 2 = 1 THEN <<>> ELSE ev.text,
     is_last |-> (ev.flags \div 2) % 2 = 1, code |-> ev.code]

\* _parse_response, the fields receive_results reads
AsrParse(ev) ==
    [text |-> ev.text, is_last |-> (ev.flags \div 2) % 2 = 1, code |-> ev.code]

\* AsrClient.close / TTSClient.close
CloseWs(S, i) == IF i = 0 THEN S ELSE [S EXCEPT ![i].closed = TRUE]

-----------------------------------------------------------------------------
(* Synthesis Session: src/tts_service.py *)

\* TTSClient.__init__ and connect()
\* voice_type is the global voice_id at the time of the call (main.py:239, 295)
NewTtsSession == [closed |-> FALSE, voice_type |-> voice_id]

TtsParseDoneByFlags(ev) ==
    IF ev.mtype = TTS_AUDIO
    THEN IF ev.flags = 0
         THEN [audio |-> FALSE, done |-> FALSE, raises |-> FALSE]
         ELSE [audio |-> ev.has_audio, done |-> ev.flags = 3, raises |-> FALSE]
    ELSE IF ev.mtype = TTS_ERROR
    THEN [audio |-> FALSE, done |-> ev.ok, raises |-> ~ev.ok]
    ELSE [audio |-> FALSE, done |-> FALSE, raises |-> FALSE]

TtsParseErrorRaises(ev) ==
    IF ev.mtype = TTS_AUDIO
    THEN IF ev.flags = 0
         THEN [audio |-> FALSE, done |-> FALSE, raises |-> FALSE]
         ELSE [audio |-> ev.has_audio, done |-> ev.seq < 0, raises |-> FALSE]
    ELSE IF ev.mtype = TTS_ERROR
    THEN [audio |-> FALSE, done |-> FALSE, raises |-> TRUE]
    ELSE [audio |-> FALSE, done |-> FALSE, raises |-> FALSE]

\* _parse_response: (audio_data is non-empty, is_done); raises when the
\* payload of an error frame does not decompress or decode (tts_service.py:71-74)
TtsParse(ev) ==
    IF ev.mtype = TTS_AUDIO
    THEN IF ev.flags = 0
         THEN [audio |-> FALSE, done |-> FALSE, raises |-> FALSE]
         ELSE [audio |-> ev.has_audio, done |-> ev.seq < 0, raises |-> FALSE]
    ELSE IF ev.mtype = TTS_ERROR
    THEN [audio |-> FALSE, done |-> ev.ok, raises |-> ~ev.ok]
    ELSE [audio |-> FALSE, done |-> FALSE, raises |-> FALSE]

-----------------------------------------------------------------------------
(* Turn orchestrator: src/main.py websocket_voice_chat *)

TurnComplete == out # <<>> /\ Last(out).type = "over"

\* an input that counts against MaxEvents is taken
Event == used < MaxEvents /\ used' = used + 1

\* the per-turn record starts again with the first inbound message after a
\* completion marker
StartMessage ==
    IF TurnComplete
    THEN /\ out' = <<>>
         /\ heard' = NoHeard
         /\ llm_full' = <<>>
         /\ deltas' = 0
         /\ gen_calls' = 0
         /\ synth_calls' = <<>>
         /\ yielded' = <<>>
    ELSE UNCHANGED <<out, heard, llm_full, deltas, gen_calls, synth_calls, yielded>>

\* an exception propagates to `except Exception as e` (main.py:347)
Raise(e) == pc' = "err" /\ exc' = e

\* a send on the client websocket fails: the client is gone
ClientGone == Raise("WebSocketDisconnect") /\ client_open' = FALSE

AlwaysGenerate(r) == FALSE

\* `if not asr_result` (main.py:270)
EmptyTranscript(r) == r = <<>>

NeedCutTypo(buf) == Len(buf) > 10

\* `if len(llm_buffer) > 100` (main.py:319)
NeedCut(buf) == Len(buf) > CutThreshold

NeverReconnect(closed) == FALSE

\* `if tts_client.ws.closed` (main.py:290)
TtsNeedsReconnect(closed) == closed

StaleTranscript == asr_result

\* `asr_result = ""` (main.py:278, 342)
ClearedTranscript == <<>>

ContinueAfterError == FALSE

\* `break` (main.py:350)
LeavesLoop == TRUE

\* first audio of the connection: asr_client is None (main.py:226-241)
NeedClients == asr_client = 0

RecvAudio ==
    /\ pc = "recv"
    /\ StartMessage
    /\ UNCHANGED <<session_closed, asr_result, llm_buffer, pending, client_open,
                   turn, voice_id, aside>>
    /\ \E size \in AudioSizes :
         LET S1 == IF NeedClients THEN Append(asrS, AsrHello(NewAsrSession)) ELSE asrS
             a1 == IF NeedClients THEN Len(asrS) + 1 ELSE asr_client
             T1 == IF NeedClients THEN Append(ttsS, NewTtsSession) ELSE ttsS
             t1 == IF NeedClients THEN Len(ttsS) + 1 ELSE tts_client
         IN
         \/ \* AsrClient.connect: ws_connect raises
            /\ NeedClients
            /\ Raise("asr ws_connect")
            /\ UNCHANGED <<asr_client, tts_client, asrS, ttsS, last_op, used>>
         \/ \* AsrClient.connect: send_bytes of the full request raises
            /\ NeedClients
            /\ asrS' = Append(asrS, NewAsrSession)
            /\ Raise("asr send_bytes")
            /\ UNCHANGED <<asr_client, tts_client, ttsS, last_op, used>>
         \/ \* TTSClient.connect raises
            /\ NeedClients
            /\ asrS' = S1 /\ asr_client' = a1
            /\ Raise("tts ws_connect")
            /\ UNCHANGED <<tts_client, ttsS, last_op, used>>
         \/ \* send_audio returns
            /\ IF size > 0 THEN Event ELSE UNCHANGED used
            /\ asrS' = [S1 EXCEPT ![a1] = SendAudio(@, size)]
            /\ asr_client' = a1 /\ ttsS' = T1 /\ tts_client' = t1
            /\ last_op' = [op |-> "send_audio", pre |-> S1[a1].seq,
                           post |-> asrS'[a1].seq,
                           emitted |-> IF Len(asrS'[a1].sent) > Len(S1[a1].sent)
                                       THEN Last(asrS'[a1].sent).frame.seq ELSE 0,
                           size |-> size, ok |-> TRUE]
            /\ UNCHANGED <<pc, exc>>
         \/ \* send_audio: send_bytes raises
            /\ size > 0
            /\ asrS' = S1 /\ asr_client' = a1 /\ ttsS' = T1 /\ tts_client' = t1
            /\ last_op' = [op |-> "send_audio", pre |-> S1[a1].seq,
                           post |-> S1[a1].seq, emitted |-> 0,
                           size |-> size, ok |-> FALSE]
            /\ Raise("asr send_bytes")
            /\ UNCHANGED used

\* a text message that is not {"type": "end"} (main.py:247-255)
RecvOther ==
    /\ pc = "recv"
    /\ StartMessage
    /\ UNCHANGED <<pc, asr_client, tts_client, asrS, ttsS, session_closed,
                   asr_result, llm_buffer, pending, exc, client_open, last_op,
                   turn, used, voice_id, aside>>

\* websocket.disconnect (main.py:344-345)
RecvDisconnect ==
    /\ pc = "recv"
    /\ StartMessage
    /\ pc' = "finally"
    /\ client_open' = FALSE
    /\ UNCHANGED <<asr_client, tts_client, asrS, ttsS, session_closed,
                   asr_result, llm_buffer, pending, exc, last_op, turn, used, voice_id, aside>>

EndAsEmptyTurn == pc' = "asr_done" /\ exc' = exc

\* `asr_client.send_end()` while asr_client is None (main.py:259)
EndOnNone == Raise("AttributeError")

\* {"type": "end"}: send_end (main.py:255-259)
RecvEnd ==
    /\ pc = "recv"
    /\ turn <= MaxTurns
    /\ StartMessage
    /\ UNCHANGED <<asr_client, tts_client, ttsS, session_closed, asr_result,
                   llm_buffer, pending, client_open, turn, used, voice_id, aside>>
    /\ \/ \* asr_client is None
          /\ asr_client = 0
          /\ EndOnNone
          /\ UNCHANGED <<asrS, last_op>>
       \/ \* send_end returns
          /\ asr_client # 0
          /\ asrS' = [asrS EXCEPT ![asr_client] = SendEnd(@)]
          /\ last_op' = [op |-> "send_end", pre |-> asrS[asr_client].seq,
                         post |-> asrS'[asr_client].seq,
                         emitted |-> Last(asrS'[asr_client].sent).frame.seq,
                         size |-> 0, ok |-> TRUE]
          /\ pc' = "asr_recv"
          /\ UNCHANGED exc
       \/ \* send_end: send_bytes raises
          /\ asr_client # 0
          /\ last_op' = [op |-> "send_end", pre |-> asrS[asr_client].seq,
                         post |-> asrS[asr_client].seq, emitted |-> 0,
                         size |-> 0, ok |-> FALSE]
          /\ Raise("asr send_bytes")
          /\ UNCHANGED asrS

\* one step of `async for text in asr_client.receive_results()` (main.py:261-263)
AsrFrame ==
    /\ pc = "asr_recv"
    /\ UNCHANGED <<asr_client, tts_client, ttsS, session_closed, llm_buffer,
                   pending, out, exc, client_open, llm_full, deltas, gen_calls,
                   synth_calls, yielded, last_op, turn, voice_id, aside>>
    /\ \E ev \in AsrEvents :
         \/ \* the channel closes or errors: the iteration ends
            /\ ev.kind = "closed"
            /\ Event
            /\ asrS' = [asrS EXCEPT ![asr_client].closed = TRUE]
            /\ pc' = "asr_done"
            /\ heard' = [heard EXCEPT !.last = "closed"]
            /\ UNCHANGED asr_result
         \/ \* a BINARY frame: a code that is not a success is logged
            \* (asr_service.py:197-198), the text is yielded if non-empty, the
            \* iteration ends after a frame flagged last
            /\ ev.kind = "binary"
            /\ LET r == AsrParse(ev) IN
               /\ asr_result' = IF r.text # <<>> THEN r.text ELSE asr_result
               /\ heard' = [text |-> IF ev.text # <<>> THEN ev.text ELSE heard.text,
                            src |-> IF ev.text # <<>> THEN asr_client ELSE heard.src,
                            bad |-> heard.bad \/ ev.code # DefaultCode,
                            last |-> IF ev.flags = NEG_WITH_SEQUENCE
                                     THEN "last" ELSE "frame"]
               /\ pc' = IF r.is_last THEN "asr_done" ELSE "asr_recv"
            /\ UNCHANGED <<asrS, used>>

\* outbound message shapes (main.py:266, 271, 304, 316, 349)
Msg(ty, data) == [type |-> ty, data |-> data]
Over == Msg("over", <<>>)

\* after the drain: send the transcript; empty transcript short-circuit and
\* reset (main.py:266-283)
AsrDone ==
    /\ pc = "asr_done"
    /\ UNCHANGED <<tts_client, ttsS, session_closed, pending, llm_full,
                   deltas, gen_calls, synth_calls, yielded, last_op, used, voice_id, aside>>
    /\ heard' = [heard EXCEPT !.bad = FALSE, !.last = "none"]
    /\ LET asr_msg == Msg("asr", asr_result) IN
       \/ \* send_json of the transcript raises
          /\ ClientGone
          /\ UNCHANGED <<out, asr_client, asrS, asr_result, llm_buffer, turn>>
       \/ \* empty: send_text("over") raises
          /\ EmptyTranscript(asr_result)
          /\ out' = Append(out, asr_msg)
          /\ ClientGone
          /\ UNCHANGED <<asr_client, asrS, asr_result, llm_buffer, turn>>
       \/ \* empty: ws_connect of the new AsrClient raises
          /\ EmptyTranscript(asr_result)
          /\ out' = out \o <<asr_msg, Over>>
          /\ Raise("asr ws_connect")
          /\ UNCHANGED <<asr_client, asrS, asr_result, llm_buffer, turn, client_open>>
       \/ \* empty: send_bytes of the new AsrClient's full request raises
          /\ EmptyTranscript(asr_result)
          /\ out' = out \o <<asr_msg, Over>>
          /\ asrS' = Append(asrS, NewAsrSession)
          /\ Raise("asr send_bytes")
          /\ UNCHANGED <<asr_client, asr_result, llm_buffer, turn, client_open>>
       \/ \* empty: completion marker, fresh session, transcript cleared
          /\ EmptyTranscript(asr_result)
          /\ out' = out \o <<asr_msg, Over>>
          /\ asrS' = Append(asrS, AsrHello(NewAsrSession))
          /\ asr_client' = Len(asrS) + 1
          /\ asr_result' = ClearedTranscript
          /\ turn' = turn + 1
          /\ pc' = "recv"
          /\ UNCHANGED <<llm_buffer, exc, client_open>>
       \/ \* non-empty: llm_buffer = "", go on to generation
          /\ ~EmptyTranscript(asr_result)
          /\ out' = Append(out, asr_msg)
          /\ llm_buffer' = <<>>
          /\ pc' = "gen_start"
          /\ UNCHANGED <<asr_client, asrS, asr_result, turn, exc, client_open>>

\* generate_stream up to the response of session.post (llm_service.py:25-42)
GenStart ==
    /\ pc = "gen_start"
    /\ gen_calls' = gen_calls + 1
    /\ UNCHANGED <<asr_client, tts_client, asrS, ttsS, session_closed, asr_result,
                   llm_buffer, pending, out, client_open, heard, llm_full, deltas,
                   synth_calls, yielded, last_op, turn, used, voice_id, aside>>
    /\ \/ pc' = "gen" /\ UNCHANGED exc
       \/ Raise("llm post")

\* one delta of `async for llm_chunk in llm_client.generate_stream(...)`
\* (main.py:311-326 up to the call of synthesize_and_send)
LlmDelta ==
    /\ pc = "gen"
    /\ Event
    /\ UNCHANGED <<asr_client, tts_client, asrS, ttsS, session_closed, asr_result,
                   heard, gen_calls, synth_calls, yielded, last_op, turn, voice_id, aside>>
    /\ \E d \in Deltas :
         LET buf == llm_buffer \o d
             cut_pos == find_nearest_punctuation(buf, TargetLen)
         IN
         /\ llm_full' = llm_full \o d
         /\ deltas' = deltas + 1
         /\ \/ \* send_json of the llm message raises
               /\ llm_buffer' = buf
               /\ ClientGone
               /\ pending' = [pending EXCEPT !.ended = "none"]
               /\ UNCHANGED out
            \/ \* at most 100 characters buffered: next delta
               /\ ~NeedCut(buf)
               /\ out' = Append(out, Msg("llm", buf))
               /\ llm_buffer' = buf
               /\ pending' = [pending EXCEPT !.ended = "none"]
               /\ UNCHANGED <<pc, exc, client_open>>
            \/ \* more than 100: cut one sentence and synthesize it
               /\ NeedCut(buf)
               /\ out' = Append(out, Msg("llm", buf))
               /\ pending' = [text |-> Sentence(buf, cut_pos), phase |-> "mid",
                               ended |-> "none"]
               /\ llm_buffer' = Remainder(buf, cut_pos)
               /\ pc' = "synth"
               /\ UNCHANGED <<exc, client_open>>

\* reading the generation response raises
LlmFail ==
    /\ pc = "gen"
    /\ Raise("llm stream")
    /\ UNCHANGED <<asr_client, tts_client, asrS, ttsS, session_closed, asr_result,
                   llm_buffer, pending, out, client_open, heard, llm_full, deltas,
                   gen_calls, synth_calls, yielded, last_op, turn, used, voice_id, aside>>

FlushCut(buf) == Sentence(buf, find_nearest_punctuation(buf, TargetLen))

\* `await synthesize_and_send(llm_buffer)` (main.py:330): the whole buffer
FlushText(buf) == buf

\* the generation stream is exhausted: flush (main.py:328-330)
LlmEnd ==
    /\ pc = "gen"
    /\ UNCHANGED <<asr_client, tts_client, asrS, ttsS, session_closed, asr_result,
                   llm_buffer, out, exc, client_open, heard, llm_full, deltas,
                   gen_calls, synth_calls, yielded, last_op, turn, used, voice_id, aside>>
    /\ \/ /\ llm_buffer # <<>>
          /\ pending' = [text |-> FlushText(llm_buffer), phase |-> "flush",
                          ended |-> "none"]
          /\ pc' = "synth"
       \/ /\ llm_buffer = <<>>
          /\ pc' = "over"
          /\ UNCHANGED pending

\* synthesize_and_send up to the request sent by synthesize
\* (main.py:286-301, tts_service.py:87-90)
SynthStart ==
    /\ pc = "synth"
    /\ UNCHANGED <<asr_client, asrS, session_closed, asr_result, llm_buffer,
                   pending, out, client_open, heard, llm_full, deltas, gen_calls,
                   yielded, last_op, turn, used, voice_id, aside>>
    /\ LET need == TtsNeedsReconnect(ttsS[tts_client].closed)
           T1 == IF need THEN Append(ttsS, NewTtsSession) ELSE ttsS
           t1 == IF need THEN Len(ttsS) + 1 ELSE tts_client
           call == [text |-> pending.text, phase |-> pending.phase, sess |-> t1,
                    closed_at_send |-> T1[t1].closed, at_delta |-> deltas]
       IN
       \/ \* the session is closed and TTSClient.connect raises
          /\ need
          /\ Raise("tts ws_connect")
          /\ UNCHANGED <<tts_client, ttsS, synth_calls>>
       \/ \* the request is sent
          /\ ~T1[t1].closed
          /\ ttsS' = T1 /\ tts_client' = t1
          /\ synth_calls' = Append(synth_calls, call)
          /\ pc' = "tts_recv"
          /\ UNCHANGED exc
       \/ \* send_bytes of the request raises
          /\ ttsS' = T1 /\ tts_client' = t1
          /\ synth_calls' = Append(synth_calls, call)
          /\ Raise("tts send_bytes")

\* what kind of message a step of the receive loop took, when it is a channel
\* close or error (tts_service.py:99-100) or an error frame (tts_service.py:70)
EndKind(ev) ==
    IF ev.kind = "closed" THEN "closed"
    ELSE IF ev.mtype = TTS_ERROR
    THEN IF ev.ok THEN "error_frame" ELSE "bad_error_frame"
    ELSE "none"

\* where synthesize_and_send returns to
AfterSynth == IF pending.phase = "mid" THEN "gen" ELSE "over"

RelayOutOfOrder(sent, chunk) ==
    IF sent # <<>> /\ Last(sent).type = "tts"
    THEN Append(SubSeq(sent, 1, Len(sent) - 1), Msg("tts", B64(chunk)))
         \o <<Last(sent)>>
    ELSE Append(sent, Msg("tts", B64(chunk)))

\* `await websocket.send_json({"type": "tts", "data": ...})` inside the loop
\* over synthesize (main.py:301-307): sent before the next chunk is taken
Relay(sent, chunk) == Append(sent, Msg("tts", B64(chunk)))

\* one step of `async for msg in self.ws` of synthesize, and the relay of
\* what it yields (tts_service.py:92-100, main.py:301-307)
TtsFrame ==
    /\ pc = "tts_recv"
    /\ UNCHANGED <<asr_client, tts_client, asrS, session_closed, asr_result,
                   llm_buffer, heard, llm_full, deltas, gen_calls,
                   synth_calls, last_op, turn, voice_id, aside>>
    /\ \E ev \in TtsEvents :
         LET r == TtsParse(ev)
             call == Len(synth_calls)
             k == Cardinality({i \in 1..Len(yielded) : yielded[i][2] = call}) + 1
             chunk == AudioOf(tts_client, call, k)
         IN
         \/ \* the channel closes or errors: the iteration ends
            /\ ev.kind = "closed"
            /\ Event
            /\ ttsS' = [ttsS EXCEPT ![tts_client].closed = TRUE]
            /\ pc' = AfterSynth
            /\ pending' = [pending EXCEPT !.ended = EndKind(ev)]
            /\ UNCHANGED <<out, exc, client_open, yielded>>
         \/ \* an error frame whose payload cannot be read: _parse_response raises
            /\ ev.kind = "binary" /\ r.raises
            /\ Raise("tts error frame")
            /\ pending' = [pending EXCEPT !.ended = EndKind(ev)]
            /\ UNCHANGED <<ttsS, out, client_open, yielded, used>>
         \/ \* a frame that yields nothing
            /\ ev.kind = "binary" /\ ~r.audio /\ ~r.raises
            /\ UNCHANGED used
            /\ pc' = IF r.done THEN AfterSynth ELSE "tts_recv"
            /\ pending' = [pending EXCEPT !.ended = EndKind(ev)]
            /\ UNCHANGED <<ttsS, out, exc, client_open, yielded>>
         \/ \* an audio chunk, relayed to the client
            /\ ev.kind = "binary" /\ r.audio
            /\ Event
            /\ yielded' = Append(yielded, chunk)
            /\ out' = Relay(out, chunk)
            /\ pc' = IF r.done THEN AfterSynth ELSE "tts_recv"
            /\ UNCHANGED <<ttsS, exc, client_open, pending>>
         \/ \* an audio chunk, send_json of the relay raises
            /\ ev.kind = "binary" /\ r.audio
            /\ Event
            /\ yielded' = Append(yielded, chunk)
            /\ ClientGone
            /\ UNCHANGED <<ttsS, out, pending>>

\* completion marker and reset (main.py:332-342)
TurnOver ==
    /\ pc = "over"
    /\ UNCHANGED <<tts_client, ttsS, session_closed, heard, llm_full, deltas,
                   gen_calls, synth_calls, yielded, last_op, used, voice_id, aside>>
    /\ \/ \* send_text("over") raises
          /\ ClientGone
          /\ UNCHANGED <<out, asr_client, asrS, asr_result, turn, llm_buffer, pending>>
       \/ \* ws_connect of the new AsrClient raises
          /\ out' = Append(out, Over)
          /\ Raise("asr ws_connect")
          /\ UNCHANGED <<asr_client, asrS, asr_result, turn, client_open,
                         llm_buffer, pending>>
       \/ \* send_bytes of the new AsrClient's full request raises
          /\ out' = Append(out, Over)
          /\ asrS' = Append(asrS, NewAsrSession)
          /\ Raise("asr send_bytes")
          /\ UNCHANGED <<asr_client, asr_result, turn, client_open, llm_buffer,
                         pending>>
       \/ \* fresh session, transcript cleared; llm_buffer and the argument of
          \* synthesize_and_send are dead from here on (llm_buffer is assigned
          \* "" at main.py:283 before its next read)
          /\ llm_buffer' = <<>>
          /\ pending' = NoPending
          /\ out' = Append(out, Over)
          /\ asrS' = Append(asrS, AsrHello(NewAsrSession))
          /\ asr_client' = Len(asrS) + 1
          /\ asr_result' = ClearedTranscript
          /\ turn' = turn + 1
          /\ pc' = "recv"
          /\ UNCHANGED <<exc, client_open>>

\* the `finally` block (main.py:356-363): close the current clients and the
\* HTTP session
Release ==
    /\ asrS' = CloseWs(asrS, asr_client)
    /\ ttsS' = CloseWs(ttsS, tts_client)
    /\ session_closed' = TRUE
    /\ pc' = "done"

\* `except Exception as e`: report, `break`, `finally` (main.py:347-363)
HandleError ==
    /\ pc = "err"
    /\ UNCHANGED <<asr_client, tts_client, asr_result, llm_buffer, pending, exc,
                   heard, llm_full, deltas, gen_calls, synth_calls, yielded,
                   last_op, turn, used, voice_id, aside>>
    /\ IF LeavesLoop
       THEN Release
       ELSE pc' = "recv" /\ UNCHANGED <<asrS, ttsS, session_closed>>
    /\ \/ \* the error message is sent
          /\ client_open
          /\ out' = Append(out, Msg("error", exc))
          /\ UNCHANGED client_open
       \/ \* send_json raises: the exception leaves the loop (main.py:354)
          /\ client_open' = FALSE
          /\ UNCHANGED out

\* the loop was left by websocket.disconnect: `finally` (main.py:356-363)
Finally ==
    /\ pc = "finally"
    /\ Release
    /\ UNCHANGED <<asr_client, tts_client, asr_result, llm_buffer, pending, out,
                   exc, client_open, heard, llm_full, deltas, gen_calls,
                   synth_calls, yielded, last_op, turn, used, voice_id, aside>>

\* POST /api/toy/save while the connection is open: save_toy_config assigns
\* the global voice_id (main.py:137-168); it has no await, so it runs whole
\* between two steps of the handler
SaveToyConfig ==
    /\ pc # "done"
    /\ Event
    /\ \E voice_code \in Voices : voice_id' = voice_code
    /\ UNCHANGED <<pc, asr_client, tts_client, asrS, ttsS, session_closed,
                   asr_result, llm_buffer, pending, out, exc, client_open, heard,
                   llm_full, deltas, gen_calls, synth_calls, yielded, last_op,
                   turn, aside>>

Next ==
    \/ SaveToyConfig
    \/ RecvAudio
    \/ RecvOther
    \/ RecvDisconnect
    \/ RecvEnd
    \/ AsrFrame
    \/ AsrDone
    \/ GenStart
    \/ LlmDelta
    \/ LlmFail
    \/ LlmEnd
    \/ SynthStart
    \/ TtsFrame
    \/ TurnOver
    \/ HandleError
    \/ Finally

Spec == Init /\ [][Next]_vars

-----------------------------------------------------------------------------
(* The segmenter on its own: one call on a bounded buffer and target length *)

PunctuationList ==
    <<"CN_PERIOD", "CN_EXCL", "CN_QUESTION", "CN_SEMI", "CN_COMMA",
      ".", "!", "?", ";", ",">>

\* a buffer of n characters with punctuation exactly at the positions P
MkBuf(n, P) ==
    [i \in 1..n |-> IF i \in P THEN PunctuationList[(i % 10) + 1] ELSE "a"]

\* buffers of at most MaxCutLen characters with at most two punctuation marks
ShortBuffers ==
    {MkBuf(n, {}) : n \in 0..MaxCutLen}
    \cup UNION {{MkBuf(n, {i, j}) : i \in 1..n, j \in 1..n} : n \in 1..MaxCutLen}

\* buffers of the size the orchestrator cuts, with the default target length
LongBuffers ==
    {D130, Rep("x", 101), Rep("A", 48) \o <<"CN_PERIOD">> \o Rep("B", 60)}

InitCut ==
    /\ InitOrch
    /\ llm = LlmIdle
    /\ codec = CodecIdle
    /\ tts = TtsIdle
    /\ cut \in [text : ShortBuffers, t : 0..MaxTarget, done : {FALSE}, res : {0}]
               \cup [text : LongBuffers, t : {TargetLen}, done : {FALSE}, res : {0}]

ApplyCut ==
    /\ ~cut.done
    /\ cut' = [cut EXCEPT !.done = TRUE,
                          !.res = find_nearest_punctuation(cut.text, cut.t)]
    /\ UNCHANGED <<orchVars, llm, codec, tts>>

NextCut == ApplyCut

SpecCut == InitCut /\ [][NextCut]_vars

-----------------------------------------------------------------------------
(* The Generation Stream on its own: src/llm_service.py LLMClient *)

\* system prompts and user texts handed to the client
SystemPrompts == {"prompt A", "prompt B"}
UserTexts == {<<>>, T_Hello}

Entry(role, content) == [role |-> role, content |-> content]

AlwaysInsertSystem(messages, content) == <<Entry("system", content)>> \o messages

\* add_system_message (llm_service.py:15-17)
add_system_message(messages, content) ==
    IF messages = <<>> \/ messages[1].role # "system"
    THEN <<Entry("system", content)>> \o messages
    ELSE messages

\* add_user_message (llm_service.py:19-20)
add_user_message(messages, content) == Append(messages, Entry("user", content))

\* `full_response += delta` ... add_assistant_message(full_response)
\* (llm_service.py:22-23, 53, 58-59): content is what was accumulated
add_assistant_message(messages, content) ==
    Append(messages, Entry("assistant", content))

InitLlm == InitOrch /\ cut = CutIdle /\ llm = LlmIdle /\ codec = CodecIdle
        /\ tts = TtsIdle

\* llm_client.add_system_message(...) between calls
AddSystemMessage ==
    /\ llm.st = "idle"
    /\ \E content \in SystemPrompts :
         llm' = [llm EXCEPT !.messages = add_system_message(@, content),
                            !.last = "none"]
    /\ UNCHANGED <<orchVars, cut, codec, tts>>

\* generate_stream(user_text) up to the request: `if user_text:
\* self.add_user_message(user_text)` (llm_service.py:25-42)
GenerateStream ==
    /\ llm.st = "idle"
    /\ llm.calls < MaxCalls
    /\ \E user_text \in UserTexts :
         llm' = [llm EXCEPT
                   !.messages = IF user_text # <<>>
                                THEN add_user_message(@, user_text) ELSE @,
                   !.before = llm.messages,
                   !.user = user_text,
                   !.full = <<>>,
                   !.n = 0,
                   !.calls = @ + 1,
                   !.st = "streaming",
                   !.last = "none"]
    /\ UNCHANGED <<orchVars, cut, codec, tts>>

\* a line with a non-empty delta: full_response += delta; yield delta
\* (llm_service.py:43-54)
LlmYield ==
    /\ llm.st = "streaming"
    /\ llm.n < MaxDeltas
    /\ \E d \in Deltas :
         llm' = [llm EXCEPT !.full = @ \o d, !.n = @ + 1]
    /\ UNCHANGED <<orchVars, cut, codec, tts>>

\* the response is exhausted or [DONE] is read, the consumer having taken
\* every delta: `if full_response: self.add_assistant_message(full_response)`
\* (llm_service.py:47-48, 58-59)
LlmComplete ==
    /\ llm.st = "streaming"
    /\ llm' = [llm EXCEPT
                 !.messages = IF llm.full # <<>>
                              THEN add_assistant_message(@, llm.full) ELSE @,
                 !.st = "idle",
                 !.last = "completed"]
    /\ UNCHANGED <<orchVars, cut, codec, tts>>

\* session.post or reading resp.content raises: the exception leaves the
\* generator before line 58
LlmRaise ==
    /\ llm.st = "streaming"
    /\ llm' = [llm EXCEPT !.st = "closed", !.last = "failed"]
    /\ UNCHANGED <<orchVars, cut, codec, tts>>

\* the consumer stops iterating after a delta; when the generator is finalized
\* the bare `except:` around `yield delta` (llm_service.py:50-56) swallows the
\* GeneratorExit, and the generator either runs on to line 58 or fails at its
\* next yield
LlmAbandon ==
    /\ llm.st = "streaming"
    /\ llm.n > 0
    /\ \/ llm' = [llm EXCEPT !.st = "closed", !.last = "abandoned"]
       \/ llm' = [llm EXCEPT
                    !.messages = add_assistant_message(@, llm.full),
                    !.st = "closed", !.last = "abandoned"]
    /\ UNCHANGED <<orchVars, cut, codec, tts>>

NextLlm ==
    \/ AddSystemMessage
    \/ GenerateStream
    \/ LlmYield
    \/ LlmComplete
    \/ LlmRaise
    \/ LlmAbandon

SpecLlm == InitLlm /\ [][NextLlm]_vars

-----------------------------------------------------------------------------
(* The frame codec on its own: src/asr_service.py AsrRequestHeader,
   _build_full_request, _build_audio_request, _parse_response.  A frame is a
   sequence of bytes (0..255). *)

\* byte k (0 = least significant) of a number 0 <= n < 2^31
ByteOf(n, k) ==
    IF k = 0 THEN n % 256
    ELSE IF k = 1 THEN (n \div 256) % 256
    ELSE IF k = 2 THEN (n \div 65536) % 256
    ELSE (n \div 16777216) % 256

\* struct.pack('>i', n): 32-bit two's complement, big-endian
PackInt32(n) ==
    IF n >= 0
    THEN <<ByteOf(n, 3), ByteOf(n, 2), ByteOf(n, 1), ByteOf(n, 0)>>
    ELSE <<255 - ByteOf(-n - 1, 3), 255 - ByteOf(-n - 1, 2),
           255 - ByteOf(-n - 1, 1), 255 - ByteOf(-n - 1, 0)>>

\* struct.pack('>I', n) for a length
PackUInt32(n) == <<ByteOf(n, 3), ByteOf(n, 2), ByteOf(n, 1), ByteOf(n, 0)>>

\* struct.unpack('>i', b)[0]
UnpackInt32(b) ==
    IF b[1] < 128
    THEN ((b[1] * 256 + b[2]) * 256 + b[3]) * 256 + b[4]
    ELSE -(((((255 - b[1]) * 256 + (255 - b[2])) * 256 + (255 - b[3])) * 256
            + (255 - b[4])) + 1)

\* gzip.compress: the two magic bytes stand for the gzip member, the data for
\* its compressed content
Gzip(data) == <<31, 139>> \o data

\* gzip.decompress: raises unless the bytes start a gzip member
Gunzip(b) ==
    IF Len(b) >= 2 /\ b[1] = 31 /\ b[2] = 139
    THEN [ok |-> TRUE, data |-> SubSeq(b, 3, Len(b))]
    ELSE [ok |-> FALSE, data |-> <<>>]

\* json.dumps(payload).encode('utf-8') of _build_full_request: "{" ... "}"
RequestJson == <<123, 125>>

\* b[n:] of Python for n >= 0
From(b, n) == SubSeq(b, Min2(n, Len(b)) + 1, Len(b))

\* AsrRequestHeader.to_bytes (asr_service.py:48-54)
HeaderBytes(message_type, flags) == <<17, message_type * 16 + flags, 17, 0>>

\* _build_full_request (asr_service.py:74-98)
build_full_request(seq) ==
    HeaderBytes(CLIENT_FULL_REQUEST, POS_SEQUENCE)
    \o PackInt32(seq)
    \o PackUInt32(Len(Gzip(RequestJson)))
    \o Gzip(RequestJson)

FlagsForgetLast(is_last) == POS_SEQUENCE

\* the type flags _build_audio_request puts in the header
AudioFlags(is_last) == IF is_last THEN NEG_WITH_SEQUENCE ELSE POS_SEQUENCE

\* _build_audio_request (asr_service.py:100-116)
build_audio_request(seq, audio_data, is_last) ==
    HeaderBytes(CLIENT_AUDIO_ONLY_REQUEST, AudioFlags(is_last))
    \o PackInt32(IF is_last THEN -seq ELSE seq)
    \o PackUInt32(Len(Gzip(audio_data)))
    \o Gzip(audio_data)

\* _parse_response (asr_service.py:118-159); the JSON of a response is
\* modelled by "{" followed by the characters of result.text
parse_response(msg) ==
    LET header_size == msg[1] % 16
        message_type == msg[2] \div 16
        flags == msg[2] % 16
        serialization_method == msg[3] \div 16
        message_compression == msg[3] % 16
        p0 == From(msg, header_size * 4)
        p1 == IF flags % 2 = 1 THEN From(p0, 4) ELSE p0
        is_last == (flags \div 2) % 2 = 1
        p2 == IF (flags \div 4) % 2 = 1 THEN From(p1, 4) ELSE p1
        code0 == IF message_type = SERVER_ERROR_RESPONSE /\ Len(p2) >= 4
                 THEN UnpackInt32(SubSeq(p2, 1, 4)) ELSE 0
        p3 == IF message_type = SERVER_FULL_RESPONSE THEN From(p2, 4)
              ELSE IF message_type = SERVER_ERROR_RESPONSE THEN From(p2, 8)
              ELSE p2
        unz == IF message_compression = GZIP THEN Gunzip(p3)
               ELSE [ok |-> TRUE, data |-> p3]
        is_json == unz.ok /\ serialization_method = JSON
                   /\ unz.data # <<>> /\ unz.data[1] = 123
    IN  IF p3 # <<>> /\ is_json
        THEN [code |-> DefaultCode, is_last |-> is_last, text |-> Tail(unz.data)]
        ELSE [code |-> code0, is_last |-> is_last, text |-> <<>>]

\* the frames the client builds: the full request and audio frames, for a
\* few values of the sequence counter and a few payloads
CounterValues == {1, 2, 300}
AudioPayloads == {<<>>, <<7>>, <<7, 200>>}
ClientFrames ==
    [kind : {"full"}, seq : CounterValues, audio : {<<>>}, is_last : {FALSE}]
    \cup [kind : {"audio"}, seq : CounterValues, audio : AudioPayloads,
          is_last : BOOLEAN]

Encode(f) ==
    IF f.kind = "full" THEN build_full_request(f.seq)
    ELSE build_audio_request(f.seq, f.audio, f.is_last)

InitCodec ==
    /\ InitOrch
    /\ cut = CutIdle
    /\ llm = LlmIdle
    /\ tts = TtsIdle
    /\ codec \in [st : {"new"}, a : ClientFrames, b : ClientFrames,
                   bytes_a : {<<>>}, bytes_b : {<<>>},
                   res_a : {NoResult}, res_b : {NoResult}]

BuildFrames ==
    /\ codec.st = "new"
    /\ codec' = [codec EXCEPT !.st = "built",
                              !.bytes_a = Encode(codec.a),
                              !.bytes_b = Encode(codec.b)]
    /\ UNCHANGED <<orchVars, cut, llm, tts>>

ParseFrames ==
    /\ codec.st = "built"
    /\ codec' = [codec EXCEPT !.st = "parsed",
                              !.res_a = parse_response(codec.bytes_a),
                              !.res_b = parse_response(codec.bytes_b)]
    /\ UNCHANGED <<orchVars, cut, llm, tts>>

NextCodec ==
    \/ BuildFrames
    \/ ParseFrames

SpecCodec == InitCodec /\ [][NextCodec]_vars

-----------------------------------------------------------------------------
(* One synthesize call on its own: src/tts_service.py TTSClient.synthesize *)

InitTts ==
    /\ InitOrch
    /\ cut = CutIdle
    /\ llm = LlmIdle
    /\ codec = CodecIdle
    /\ tts = TtsIdle

\* synthesize(text): build the request and send it (tts_service.py:87-90)
Synthesize ==
    /\ tts.st = "idle"
    /\ tts' = [tts EXCEPT !.st = "streaming", !.requests = @ + 1]
    /\ UNCHANGED <<orchVars, cut, llm, codec>>

\* one step of `async for msg in self.ws` (tts_service.py:92-100): what the
\* step yields and whether the iteration ends with it
TtsTake ==
    /\ tts.st = "streaming"
    /\ Len(tts.log) < MaxFrames
    /\ \E ev \in TtsEvents :
         LET r == TtsParse(ev)
             step == IF ev.kind = "closed"
                     THEN [ev |-> ev, yields |-> FALSE, ends |-> TRUE, raises |-> FALSE]
                     ELSE [ev |-> ev, yields |-> r.audio /\ ~r.raises,
                           ends |-> r.done /\ ~r.raises, raises |-> r.raises]
         IN  tts' = [tts EXCEPT !.log = Append(@, step),
                                !.st = IF step.raises THEN "raised"
                                       ELSE IF step.ends THEN "ended"
                                       ELSE "streaming"]
    /\ UNCHANGED <<orchVars, cut, llm, codec>>

NextTts ==
    \/ Synthesize
    \/ TtsTake

SpecTts == InitTts /\ [][NextTts]_vars

-----------------------------------------------------------------------------
(* Properties *)

IsTts(m) == m.type = "tts"
IsLlm(m) == m.type = "llm"
IsAudioFrame(e) == e.frame.mtype = CLIENT_AUDIO_ONLY_REQUEST

\* the current Recognition Session is the newest one, connected and unused
FreshAsr ==
    /\ asr_client # 0
    /\ asr_client = Len(asrS)
    /\ asrS[asr_client].seq = 2
    /\ ~asrS[asr_client].closed
    /\ Len(asrS[asr_client].sent) = 1
    /\ asrS[asr_client].sent[1].frame.mtype = CLIENT_FULL_REQUEST

EmptyTurn == out # <<>> /\ out[1].type = "asr" /\ out[1].data = <<>>

\* C1: in a turn whose transcript is empty neither generate_stream nor
\* synthesize is called and no llm or tts message is sent; the turn goes on
\* only to the completion marker, and when the loop is back at receive the
\* marker has been sent and the Recognition Session is a fresh one, not the
\* session that got the end frame.
Thm_C1 ==
    EmptyTurn =>
        /\ gen_calls = 0
        /\ synth_calls = <<>>
        /\ \A i \in 1..Len(out) : out[i].type \notin {"llm", "tts"}
        /\ pc \in {"recv", "err", "done"}
        /\ pc = "recv" =>
              /\ out = <<Msg("asr", <<>>), Over>>
              /\ FreshAsr
              /\ asr_client > 1
              /\ Last(asrS[asr_client - 1].sent).frame.seq < 0

Wit_C1 == pc = "recv" /\ EmptyTurn /\ Len(out) = 2 /\ out[2].type = "over"

\* C2: the outbound messages of a turn: at most one asr message, first; llm
\* and tts messages only after it and before the completion marker; a
\* completed turn with a non-empty transcript is asr (the transcript), llm and
\* tts messages, one completion marker.  With at most 100 generated characters
\* there is one llm message per delta, every llm message precedes every tts
\* message and the only synthesize call is the final flush.
Thm_C2 ==
    /\ Count(out, "asr") <= 1
    /\ Count(out, "over") <= 1
    /\ \A i \in 1..Len(out) :
          /\ out[i].type = "asr" => i = 1
          /\ out[i].type \in {"llm", "tts"} =>
                /\ out[1].type = "asr"
                /\ \A j \in 1..i : out[j].type # "over"
    /\ Len(llm_full) <= 100 =>
          /\ \A i, j \in 1..Len(out) :
                (out[i].type = "tts" /\ out[j].type = "llm") => j < i
          /\ Len(synth_calls) <= 1
          /\ \A i \in 1..Len(synth_calls) : synth_calls[i].phase = "flush"
          /\ \A i \in 1..Len(yielded) : yielded[i][2] = 1
    /\ (pc = "recv" /\ TurnComplete /\ ~EmptyTurn) =>
          /\ out[1] = Msg("asr", heard.text)
          /\ heard.text # <<>>
          /\ Last(out) = Over
          /\ \A i \in 2..(Len(out) - 1) : out[i].type \in {"llm", "tts"}
          /\ Len(llm_full) <= 100 => Count(out, "llm") = deltas

Wit_C2 ==
    /\ pc = "recv" /\ TurnComplete
    /\ deltas = 3
    /\ Len(llm_full) <= 100
    /\ Count(out, "llm") = 3
    /\ Count(out, "tts") >= 1

\* C3 (as claimed): every llm message carries the concatenation of all deltas
\* of the turn so far, so each has the previous one as a prefix.
CE_C3 ==
    /\ \A i, j \in 1..Len(out) :
          (i < j /\ out[i].type = "llm" /\ out[j].type = "llm")
              => IsPrefix(out[i].data, out[j].data)
    /\ (pc \in {"gen", "synth", "tts_recv", "over"} /\ deltas > 0) =>
          Last(SelectSeq(out, IsLlm)).data = llm_full

\* C4: when the only delta is the 130-character one with punctuation at index
\* 52 (none at 50, 51), the first synthesize call is made before the stream is
\* exhausted on the first 53 characters, the second after the stream has ended
\* on the other 77, and there is no third.
Thm_C4 ==
    (llm_full = D130 /\ deltas = 1) =>
        /\ Len(synth_calls) <= 2
        /\ Len(synth_calls) >= 1 =>
              /\ synth_calls[1].text = SubSeq(D130, 1, 53)
              /\ synth_calls[1].phase = "mid"
        /\ Len(synth_calls) = 2 =>
              /\ synth_calls[2].text = SubSeq(D130, 54, 130)
              /\ Len(synth_calls[2].text) = 77
              /\ synth_calls[2].phase = "flush"
        /\ pc = "gen" => Len(synth_calls) = 1
        /\ (pc = "over" \/ (pc = "recv" /\ TurnComplete)) => Len(synth_calls) = 2

Wit_C4 ==
    /\ pc = "recv" /\ TurnComplete
    /\ llm_full = D130 /\ deltas = 1
    /\ Len(synth_calls) = 2

\* C5: no synthesis request goes out on a channel that reports closed: a
\* closed session is replaced first; and the client gets one tts message per
\* audio chunk that synthesize yields, in order, whichever session yields it.
Thm_C5 ==
    /\ \A i \in 1..Len(synth_calls) : ~synth_calls[i].closed_at_send
    /\ pc = "tts_recv" =>
          /\ ~ttsS[tts_client].closed
          /\ Last(synth_calls).sess = tts_client
    /\ LET relayed == SelectSeq(out, IsTts) IN
          /\ Len(relayed) <= Len(yielded)
          /\ \A i \in 1..Len(relayed) : relayed[i].data = B64(yielded[i])
          /\ pc \notin {"err", "done"} => Len(relayed) = Len(yielded)

Wit_C5 ==
    /\ Len(ttsS) >= 2
    /\ \E i \in 1..Len(yielded) :
          /\ yielded[i][1] = 2
          /\ \E j \in 1..Len(out) :
                out[j].type = "tts" /\ out[j].data = B64(yielded[i])

\* C6 (as claimed): send_end emits the negated counter; send_audio always
\* emits a positive sequence number and increments the counter by 1.
CE_C6 ==
    last_op.ok =>
        /\ last_op.op = "send_end" =>
              last_op.emitted < 0 /\ last_op.emitted = -last_op.pre
        /\ last_op.op = "send_audio" =>
              last_op.emitted > 0 /\ last_op.post = last_op.pre + 1

\* C6 (amended): a send_end that returns emits the negated counter and leaves
\* the counter alone; a send_audio that returns emits, for a non-empty
\* payload of any size, the counter (positive) and increments it by 1, and for
\* an empty payload emits nothing and leaves the counter alone.
Thm_C6 ==
    /\ last_op.op = "send_end" /\ last_op.ok =>
          /\ last_op.emitted < 0
          /\ last_op.emitted = -last_op.pre
          /\ last_op.post = last_op.pre
    /\ last_op.op = "send_audio" /\ last_op.ok /\ last_op.size > 0 =>
          /\ last_op.emitted > 0
          /\ last_op.emitted = last_op.pre
          /\ last_op.post = last_op.pre + 1
    /\ last_op.op = "send_audio" /\ last_op.size = 0 =>
          /\ last_op.emitted = 0
          /\ last_op.post = last_op.pre
    /\ ~last_op.ok => last_op.emitted = 0 /\ last_op.post = last_op.pre

Wit_C6 ==
    /\ last_op.op = "send_end" /\ last_op.ok
    /\ last_op.pre >= 3
    /\ \E i \in 1..Len(asrS[asr_client].sent) :
          asrS[asr_client].sent[i].frame.payload = "gzip(audio)"

\* C7 (as claimed): every exception ends in exactly one error message, the
\* last message of the connection, carrying the exception text.
CE_C7 ==
    (pc = "done" /\ exc # "") =>
        /\ Count(out, "error") = 1
        /\ Last(out) = Msg("error", exc)

\* C7 (amended): after an exception the loop is left for good (no inbound
\* message is taken, the turn is not resumed), nothing is sent but the error
\* message, which is sent once, last and with the exception text if the client
\* still accepts it, and not at all if the client is gone.
Thm_C7 ==
    exc # "" =>
        /\ pc \in {"err", "done"}
        /\ pc = "err" => Count(out, "error") = 0
        /\ pc = "done" =>
              IF client_open
              THEN /\ Count(out, "error") = 1
                   /\ out # <<>>
                   /\ Last(out).type = "error"
                   /\ Last(out).data = exc
              ELSE Count(out, "error") = 0

Wit_C7 ==
    /\ pc = "done" /\ exc = "llm stream"
    /\ Count(out, "error") = 1
    /\ deltas > 0

\* C8: after a completion marker, when the loop is back at receive, the
\* Recognition Session is a fresh one and the stored transcript is empty; no
\* session gets audio frames of two turns; and the transcript sent in a turn
\* is the last text its own session yielded in that turn.
Thm_C8 ==
    /\ (pc = "recv" /\ TurnComplete) => (asr_result = <<>> /\ FreshAsr)
    /\ \A i \in 1..Len(asrS) :
          \A j, k \in 1..Len(asrS[i].sent) :
              (IsAudioFrame(asrS[i].sent[j]) /\ IsAudioFrame(asrS[i].sent[k]))
                  => asrS[i].sent[j].turn = asrS[i].sent[k].turn
    /\ (out # <<>> /\ out[1].type = "asr") =>
          /\ out[1].data = heard.text
          /\ heard.src # 0 => Last(asrS[heard.src].sent).frame.seq < 0

Wit_C8 ==
    /\ pc = "recv" /\ TurnComplete
    /\ turn = 3
    /\ ~EmptyTurn
    /\ \E j \in 1..Len(asrS[2].sent) :
          asrS[2].sent[j].frame.payload = "gzip(audio)"
    /\ \E j \in 1..Len(asrS[1].sent) :
          asrS[1].sent[j].frame.payload = "gzip(audio)"

\* C9 (as claimed): when the handler has returned, every Recognition Session
\* and every Synthesis Session opened on the connection and the HTTP session
\* are closed.
CE_C9 ==
    pc = "done" =>
        /\ \A i \in 1..Len(asrS) : asrS[i].closed
        /\ \A i \in 1..Len(ttsS) : ttsS[i].closed
        /\ session_closed

\* C10: for a buffer longer than the target length t >= 0 the cut index lies
\* within the buffer.
Thm_C10 ==
    (cut.done /\ cut.t >= 0 /\ Len(cut.text) > cut.t) =>
        (0 <= cut.res /\ cut.res < Len(cut.text))

Wit_C10 ==
    /\ cut.done
    /\ Len(cut.text) > cut.t
    /\ cut.res > cut.t
    /\ cut.res = Len(cut.text) - 1

\* C11 (as claimed): for every buffer, the empty one included, the cut index
\* lies within the buffer, sentence followed by remainder is the buffer, and a
\* buffer no longer than the target length is consumed whole.
CE_C11 ==
    cut.done =>
        /\ 0 <= cut.res /\ cut.res < Len(cut.text)
        /\ Sentence(cut.text, cut.res) \o Remainder(cut.text, cut.res) = cut.text
        /\ Len(cut.text) <= cut.t => Sentence(cut.text, cut.res) = cut.text

\* C11 (amended): for a target length >= 0 and a non-empty buffer the cut
\* index lies within the buffer; for the empty buffer the result is -1, which
\* is no index of it; in both cases sentence followed by remainder is the
\* buffer, and a buffer no longer than the target length is consumed whole
\* (the result is len - 1 and the remainder is empty).
Thm_C11 ==
    cut.done =>
        /\ cut.text # <<>> => (0 <= cut.res /\ cut.res < Len(cut.text))
        /\ cut.text = <<>> => cut.res = -1
        /\ Sentence(cut.text, cut.res) \o Remainder(cut.text, cut.res) = cut.text
        /\ Len(cut.text) <= cut.t =>
              /\ cut.res = Len(cut.text) - 1
              /\ Sentence(cut.text, cut.res) = cut.text
              /\ Remainder(cut.text, cut.res) = <<>>

Wit_C11 ==
    /\ cut.done
    /\ cut.text # <<>>
    /\ Len(cut.text) < cut.t
    /\ cut.res = Len(cut.text) - 1
    /\ \E i \in 1..Len(cut.text) : cut.text[i] \in Punctuations

PunctAt(text, i) == i >= 0 /\ i < Len(text) /\ text[i + 1] \in Punctuations

ExampleBuffer == Rep("A", 48) \o <<"CN_PERIOD">> \o Rep("B", 60)

\* C12 (as claimed): for a buffer longer than the target length t the result
\* is the first punctuation index of the forward scan over t .. t+20, if any;
\* otherwise the first one met scanning backward over t .. t-20, if any;
\* otherwise t.
CE_C12 ==
    (cut.done /\ Len(cut.text) > cut.t) =>
        LET F == {i \in cut.t..(cut.t + SearchWindow) : PunctAt(cut.text, i)}
            B == {i \in (cut.t - SearchWindow)..cut.t : PunctAt(cut.text, i)}
        IN  /\ F # {} => (cut.res \in F /\ \A i \in F : cut.res <= i)
            /\ (F = {} /\ B # {}) => (cut.res \in B /\ \A i \in B : i <= cut.res)
            /\ (F = {} /\ B = {}) => cut.res = cut.t

\* C12 (amended): the forward scan covers the indices t .. t+19 (t+20 is not
\* looked at) and wins even when a punctuation lies nearer behind t; the
\* backward scan covers t down to t-20, t-20 included; with no punctuation in
\* either the result is t.  For 48 "A", one full-width period, 60 "B" and
\* t = 50 the result is 48.
Thm_C12 ==
    (cut.done /\ Len(cut.text) > cut.t) =>
        LET F == {i \in cut.t..(cut.t + SearchWindow - 1) : PunctAt(cut.text, i)}
            B == {i \in (cut.t - SearchWindow)..cut.t : PunctAt(cut.text, i)}
        IN  /\ F # {} => (cut.res \in F /\ \A i \in F : cut.res <= i)
            /\ (F = {} /\ B # {}) => (cut.res \in B /\ \A i \in B : i <= cut.res)
            /\ (F = {} /\ B = {}) => cut.res = cut.t
            /\ (cut.text = ExampleBuffer /\ cut.t = TargetLen) => cut.res = 48

Wit_C12 ==
    /\ cut.done
    /\ Len(cut.text) > cut.t
    /\ cut.res > cut.t
    /\ PunctAt(cut.text, cut.res)
    /\ \E i \in 0..(cut.t - 1) : PunctAt(cut.text, i) /\ cut.t - i < cut.res - cut.t

IsSystem(m) == m.role = "system"

\* C13: the conversation holds at most one system message, and only as its
\* first entry; a completed generate_stream(userText) of a turn (userText
\* non-empty) has appended to the conversation it found one user entry holding
\* userText and then, exactly when a delta was yielded, one assistant entry
\* holding the yielded deltas in order; and no step removes, changes or
\* reorders an entry: the conversation only grows at its end, or at its front
\* by the system message.
Thm_C13 ==
    /\ [](/\ Len(SelectSeq(llm.messages, IsSystem)) <= 1
          /\ \A i \in 1..Len(llm.messages) : IsSystem(llm.messages[i]) => i = 1
          /\ (llm.last = "completed" /\ llm.user # <<>>) =>
                llm.messages =
                    llm.before \o <<Entry("user", llm.user)>>
                    \o (IF llm.n > 0 THEN <<Entry("assistant", llm.full)>> ELSE <<>>))
    /\ [][\/ IsPrefix(llm.messages, llm.messages')
          \/ /\ llm.messages' = <<llm.messages'[1]>> \o llm.messages
             /\ IsSystem(llm.messages'[1])]_vars

Wit_C13 ==
    /\ llm.last = "completed"
    /\ llm.calls = 2
    /\ llm.n = 2
    /\ Len(llm.messages) = 5
    /\ llm.messages[1].role = "system"
    /\ llm.messages[4].role = "user"
    /\ llm.messages[5].role = "assistant"

\* C14 (as claimed): every Synthesis Session created on the connection, the
\* first one and every reconnection, carries the voice id that was current
\* when the connection started, whatever is saved meanwhile.
CE_C14 ==
    \A i \in 1..Len(ttsS) : ttsS[i].voice_type = VoiceAtStart

\* the fields of the frame f as the encoders put them on the wire
WireType(f) == IF f.kind = "full" THEN CLIENT_FULL_REQUEST ELSE CLIENT_AUDIO_ONLY_REQUEST
WireFlags(f) == IF f.is_last THEN NEG_WITH_SEQUENCE ELSE POS_SEQUENCE
WireSeq(f) == IF f.is_last THEN -f.seq ELSE f.seq
WirePayload(f) == IF f.kind = "full" THEN RequestJson ELSE f.audio

\* C15 (as claimed): decoding an encoded frame gives the frame back, so two
\* frames that decode to the same result are the same frame.
CE_C15 ==
    (codec.st = "parsed" /\ codec.res_a = codec.res_b) => codec.a = codec.b

\* what holds of one frame, its encoding and the result of parsing it
RoundTrip(f, bytes, res) ==
    /\ Len(bytes) >= 12
    /\ bytes[2] \div 16 = WireType(f)
    /\ bytes[2] % 16 = WireFlags(f)
    /\ UnpackInt32(SubSeq(bytes, 5, 8)) = WireSeq(f)
    /\ UnpackInt32(SubSeq(bytes, 9, 12)) = Len(bytes) - 12
    /\ Gunzip(From(bytes, 12)) = [ok |-> TRUE, data |-> WirePayload(f)]
    /\ res = [code |-> 0, is_last |-> f.is_last, text |-> <<>>]

\* C15 (amended): the encoded bytes hold the message type and type flags in
\* byte 1, the sequence number as a signed 32-bit big-endian integer in bytes
\* 4..7, the length of the compressed payload in bytes 8..11 and the
\* compressed payload after them, so each can be read back from the bytes; the
\* parser of the code gives back of an encoded frame only whether its flags
\* mark it last, with code 0 and no text: not its message type, sequence
\* number or payload.
Thm_C15 ==
    codec.st = "parsed" =>
        /\ RoundTrip(codec.a, codec.bytes_a, codec.res_a)
        /\ RoundTrip(codec.b, codec.bytes_b, codec.res_b)

Wit_C15 ==
    /\ codec.st = "parsed"
    /\ codec.a = [kind |-> "audio", seq |-> 300, audio |-> <<7, 200>>, is_last |-> TRUE]
    /\ codec.b = [kind |-> "audio", seq |-> 2, audio |-> <<>>, is_last |-> TRUE]
    /\ codec.res_a = codec.res_b
    /\ SubSeq(codec.bytes_a, 5, 8) = <<255, 255, 254, 212>>

IsFullRequest(e) == e.frame.mtype = CLIENT_FULL_REQUEST

\* the session has been through a connect() that returned
Connected(s) == s.consumed > 0

\* C16 (as claimed): when connect() has completed, one full request has been
\* sent, one response consumed, and the sequence counter is 1.
CE_C16 ==
    (pc = "recv" /\ TurnComplete) =>
        /\ Len(asrS[asr_client].sent) = 1
        /\ IsFullRequest(asrS[asr_client].sent[1])
        /\ asrS[asr_client].consumed = 1
        /\ asrS[asr_client].seq = 1

\* C16 (amended): when connect() has completed, exactly one full request has
\* been sent, carrying sequence number 1, exactly one message has been
\* consumed, and the sequence counter is 2; no later operation sends another
\* full request or lowers the counter.
Thm_C16 ==
    /\ (pc = "recv" /\ TurnComplete) =>
          /\ Len(asrS[asr_client].sent) = 1
          /\ IsFullRequest(asrS[asr_client].sent[1])
          /\ asrS[asr_client].sent[1].frame.seq = 1
          /\ asrS[asr_client].consumed = 1
          /\ asrS[asr_client].seq = 2
    /\ asr_client # 0 => Connected(asrS[asr_client])
    /\ \A i \in 1..Len(asrS) :
          IF Connected(asrS[i])
          THEN /\ asrS[i].consumed = 1
               /\ Len(SelectSeq(asrS[i].sent, IsFullRequest)) = 1
               /\ IsFullRequest(asrS[i].sent[1])
               /\ asrS[i].sent[1].frame.seq = 1
               /\ asrS[i].seq = 2 + Len(SelectSeq(asrS[i].sent, IsAudioFrame))
                                  - (IF Last(asrS[i].sent).frame.seq < 0 THEN 1 ELSE 0)
          ELSE asrS[i].sent = <<>> /\ asrS[i].seq = 1

Wit_C16 ==
    /\ pc = "recv" /\ TurnComplete
    /\ asr_client = 2
    /\ Connected(asrS[2])
    /\ asrS[2].seq = 2
    /\ asrS[1].seq > 2

Abs(n) == IF n < 0 THEN -n ELSE n

\* C17: a send_audio with an empty payload puts no frame on the channel and
\* leaves the sequence counter as it was, so on every session the sequence
\* numbers of the frames emitted are consecutive: the j-th frame carries j
\* (negated on the end frame), and the counter is one more than the number of
\* frames sent so far (the end frame does not count).
Thm_C17 ==
    /\ (last_op.op = "send_audio" /\ last_op.size = 0) =>
          /\ last_op.ok
          /\ last_op.emitted = 0
          /\ last_op.post = last_op.pre
    /\ \A i \in 1..Len(asrS) :
          /\ \A j \in 1..Len(asrS[i].sent) : Abs(asrS[i].sent[j].frame.seq) = j
          /\ \A j \in 1..Len(asrS[i].sent) :
                asrS[i].sent[j].frame.payload = "gzip(empty)"
                    => asrS[i].sent[j].frame.flags = NEG_WITH_SEQUENCE
          /\ asrS[i].seq \in {Len(asrS[i].sent), Len(asrS[i].sent) + 1}

Wit_C17 ==
    /\ last_op.op = "send_audio" /\ last_op.size = 0
    /\ last_op.pre = 3
    /\ asr_client # 0
    /\ Len(asrS[asr_client].sent) = 2
    /\ asrS[asr_client].sent[2].frame.seq = 2
    /\ asrS[asr_client].seq = 3

RECURSIVE Concat(_)
Concat(ss) == IF ss = <<>> THEN <<>> ELSE Head(ss) \o Concat(Tail(ss))

\* the synthesize call and the chunk number a tts message comes from
CallOf(m) == m.data[3]
ChunkOf(m) == m.data[4]

\* C18: every tts message of a sentence is sent after the llm message of the
\* delta at which the sentence was cut and before the llm message of the next
\* delta; the tts messages of one sentence are contiguous and in the order
\* their chunks were yielded; sentences are synthesized in the order they were
\* cut, each call taking the text that follows the previous sentence; and a
\* delta is only taken when no synthesis is under way.
Thm_C18 ==
    /\ \A i \in 1..Len(out) :
          IsTts(out[i]) =>
              /\ CallOf(out[i]) \in 1..Len(synth_calls)
              /\ Len(SelectSeq(SubSeq(out, 1, i), IsLlm))
                    = synth_calls[CallOf(out[i])].at_delta
    /\ \A i, j \in 1..Len(out) :
          (i < j /\ IsTts(out[i]) /\ IsTts(out[j])) =>
              \/ CallOf(out[i]) < CallOf(out[j])
              \/ CallOf(out[i]) = CallOf(out[j]) /\ ChunkOf(out[i]) < ChunkOf(out[j])
    /\ \A c \in 1..Len(synth_calls) :
          /\ c > 1 => synth_calls[c - 1].phase = "mid"
          /\ c > 1 => synth_calls[c - 1].at_delta < synth_calls[c].at_delta
                      \/ synth_calls[c].phase = "flush"
    /\ IsPrefix(Concat([c \in 1..Len(synth_calls) |-> synth_calls[c].text]), llm_full)
    /\ pc = "gen" => Len(SelectSeq(out, IsLlm)) = deltas

Wit_C18 ==
    /\ Len(synth_calls) = 2
    /\ synth_calls[2].phase = "mid"
    /\ \E i, j, k \in 1..Len(out) :
          /\ i < j /\ j < k
          /\ IsTts(out[i]) /\ CallOf(out[i]) = 1
          /\ IsLlm(out[j])
          /\ IsTts(out[k]) /\ CallOf(out[k]) = 2

\* C19: the drain goes on after every frame that is not flagged last,
\* whatever its code, and raises nothing; it ends after the first frame
\* flagged last or when the channel closes; and when it has ended the
\* transcript is the last non-empty text the consumed frames carried, the
\* frame flagged last included, or empty when none carried text.
Thm_C19 ==
    /\ heard.last = "frame" => (pc = "asr_recv" /\ exc = "")
    /\ pc = "asr_recv" => heard.last \in {"none", "frame"}
    /\ pc = "asr_done" =>
          /\ heard.last \in {"last", "closed"}
          /\ exc = ""
          /\ asr_result = heard.text
          /\ heard.src \in {0, asr_client}
          /\ heard.src = 0 => asr_result = <<>>
    /\ pc \in {"asr_recv", "asr_done"} =>
          /\ Last(asrS[asr_client].sent).frame.seq < 0
          /\ asr_result = heard.text

Wit_C19 ==
    /\ pc = "asr_done"
    /\ heard.last = "last"
    /\ heard.bad
    /\ asr_result = T_Bye

\* C20: synthesize sends one request frame; of the frames it then takes, an
\* audio-chunk frame with a payload section yields its audio exactly when the
\* audio is non-empty and ends the stream, after that, exactly when its
\* sequence number is negative; an audio-chunk frame without payload section
\* (type flags 0), a frontend-event frame and a frame of any other type yield
\* nothing and do not end the stream; an error frame yields nothing and ends
\* it; a channel close ends it; and nothing is taken or yielded after the step
\* that ended the stream.
Thm_C20 ==
    /\ tts.st = "idle" => (tts.requests = 0 /\ tts.log = <<>>)
    /\ tts.st # "idle" => tts.requests = 1
    /\ \A i \in 1..Len(tts.log) :
          LET e == tts.log[i].ev
              step == tts.log[i]
          IN  /\ e.kind = "closed" => (~step.yields /\ step.ends)
              /\ (e.kind = "binary" /\ e.mtype = TTS_AUDIO /\ e.flags # 0) =>
                    /\ step.yields = e.has_audio
                    /\ step.ends = (e.seq < 0)
                    /\ ~step.raises
              /\ (e.kind = "binary" /\ e.mtype = TTS_AUDIO /\ e.flags = 0) =>
                    (~step.yields /\ ~step.ends /\ ~step.raises)
              /\ (e.kind = "binary" /\ e.mtype = TTS_ERROR) =>
                    (~step.yields /\ (step.ends \/ step.raises))
              /\ (e.kind = "binary" /\ e.mtype \notin {TTS_AUDIO, TTS_ERROR}) =>
                    (~step.yields /\ ~step.ends /\ ~step.raises)
              /\ i < Len(tts.log) => (~step.ends /\ ~step.raises)
    /\ tts.st = "streaming" =>
          \A i \in 1..Len(tts.log) : ~tts.log[i].ends /\ ~tts.log[i].raises
    /\ tts.st = "ended" => (tts.log # <<>> /\ Last(tts.log).ends)
    /\ tts.st = "raised" => (tts.log # <<>> /\ Last(tts.log).raises)

Wit_C20 ==
    /\ tts.st = "ended"
    /\ Len(tts.log) = 3
    /\ tts.log[1].ev.mtype = TTS_FRONTEND
    /\ tts.log[2].yields /\ ~tts.log[2].ends
    /\ tts.log[3].ev.seq < 0 /\ tts.log[3].ev.flags = 1
    /\ tts.log[3].yields /\ tts.log[3].ends

\* the sentences passed to synthesize this turn, in call order
Sentences == [c \in 1..Len(synth_calls) |-> synth_calls[c].text]

\* C21: synthesize is never called with an empty sentence; while a turn
\* generates, the sentences synthesized so far, the sentence about to be
\* synthesized and the buffer make up the generated text, in that order; and
\* when the turn has completed the sentences, concatenated in call order, are
\* the concatenation of the deltas of the turn.
Thm_C21 ==
    /\ \A c \in 1..Len(synth_calls) : synth_calls[c].text # <<>>
    /\ pc = "synth" => pending.text # <<>>
    /\ pc = "gen" => Concat(Sentences) \o llm_buffer = llm_full
    /\ (pc = "synth" /\ pending.phase = "mid") =>
          Concat(Sentences) \o pending.text \o llm_buffer = llm_full
    /\ (pc = "synth" /\ pending.phase = "flush") =>
          Concat(Sentences) \o pending.text = llm_full
    /\ (pc = "over" \/ (pc = "recv" /\ TurnComplete)) =>
          Concat(Sentences) = llm_full

Wit_C21 ==
    /\ pc = "recv" /\ TurnComplete
    /\ deltas = 2
    /\ Len(synth_calls) = 2
    /\ synth_calls[1].phase = "mid"
    /\ Len(synth_calls[2].text) = 91
    /\ Len(llm_full) = 144

\* C22 (as claimed): after the stream has ended the segmenter is applied to
\* the remaining buffer, and what is synthesized is the sentence it cuts.
CE_C22 ==
    (pc = "synth" /\ pending.phase = "flush") =>
        pending.text = Sentence(llm_buffer,
                                find_nearest_punctuation(llm_buffer, TargetLen))

\* C22 (amended): after the stream has ended a non-empty remaining buffer is
\* passed whole to one synthesize call, the last of the turn, whatever its
\* length and without the segmenter; an empty one leads to no call.
Thm_C22 ==
    /\ (pc = "synth" /\ pending.phase = "flush") =>
          (pending.text = llm_buffer /\ llm_buffer # <<>>)
    /\ \A c \in 1..Len(synth_calls) :
          synth_calls[c].phase = "flush" => c = Len(synth_calls)
    /\ pc = "over" =>
          IF llm_buffer = <<>>
          THEN synth_calls = <<>>
          ELSE /\ synth_calls # <<>>
               /\ Last(synth_calls).phase = "flush"
               /\ Last(synth_calls).text = llm_buffer

Wit_C22 ==
    /\ pc = "over"
    /\ Len(synth_calls) = 2
    /\ Last(synth_calls).phase = "flush"
    /\ Len(Last(synth_calls).text) = 77
    /\ Len(Sentence(llm_buffer, find_nearest_punctuation(llm_buffer, TargetLen))) = 51

\* C23 as stated: a channel close, a channel error or an error frame during a
\* sentence's synthesis never aborts the turn.
CE_C23 == pending.ended # "none" => exc # "tts error frame"

\* C23: when the synthesis channel closes or errors, or delivers an error
\* frame whose payload can be read, while a sentence is synthesized, the
\* handler goes on after that sentence (next delta, or the completion marker
\* after the flush) with no exception and no 'error' message; a later
\* sentence of the turn is sent on a session that is open, a new one when
\* the old one was closed; a turn that completes has sent no 'error' message
\* and holds a fresh Recognition Session. An error frame whose payload cannot
\* be read raises out of the turn instead.
Thm_C23 ==
    /\ (pending.ended \in {"closed", "error_frame"} /\ pc \in {"gen", "over"})
          => /\ exc = ""
             /\ Count(out, "error") = 0
             /\ pc = (IF pending.phase = "mid" THEN "gen" ELSE "over")
    /\ pending.ended \in {"closed", "error_frame"}
          => /\ exc # "tts error frame"
             /\ pc \in {"gen", "over", "err", "done"}
    /\ pending.ended = "closed" => ttsS[Last(synth_calls).sess].closed
    /\ pending.ended = "bad_error_frame"
          => pc \in {"err", "done"} /\ exc = "tts error frame"
    /\ pc = "tts_recv" => ~ttsS[tts_client].closed
    /\ \A c \in 2..Len(synth_calls) :
          /\ ~synth_calls[c].closed_at_send
          /\ synth_calls[c].sess # synth_calls[c - 1].sess
                => /\ ttsS[synth_calls[c - 1].sess].closed
                   /\ synth_calls[c].sess = synth_calls[c - 1].sess + 1
    /\ (pc = "recv" /\ TurnComplete)
          => Count(out, "error") = 0 /\ FreshAsr

\* a turn completed after the session of its first sentence was closed
\* during that sentence: the second sentence went out on a new session
Wit_C23 ==
    /\ pc = "recv" /\ TurnComplete /\ FreshAsr
    /\ Count(out, "error") = 0
    /\ Len(synth_calls) = 2
    /\ ttsS[synth_calls[1].sess].closed
    /\ synth_calls[2].sess # synth_calls[1].sess
    /\ ~ \E i \in 1..Len(yielded) : yielded[i][2] = 1

\* the frames of Recognition Session i that carry a negative sequence number
EndFrames(i) ==
    {k \in 1..Len(asrS[i].sent) : asrS[i].sent[k].frame.seq < 0}

\* C24: on every Recognition Session a frame with a negative sequence number
\* is the last frame sent on it: no audio frame follows the end frame and
\* there is at most one end frame; the end frame is the one frame flagged as
\* last, and the session it was sent on is replaced before the handler
\* receives again.
Thm_C24 ==
    /\ \A i \in 1..Len(asrS) :
          /\ \A k \in EndFrames(i) : k = Len(asrS[i].sent)
          /\ Cardinality(EndFrames(i)) <= 1
          /\ \A k \in 1..Len(asrS[i].sent) :
                asrS[i].sent[k].frame.flags = NEG_WITH_SEQUENCE
                   <=> k \in EndFrames(i)
    /\ (pc = "recv" /\ asr_client # 0) => EndFrames(asr_client) = {}

\* two turns, each with audio and an end frame on its own session, and the
\* third session waiting with only its full request sent
Wit_C24 ==
    /\ pc = "recv" /\ Len(asrS) = 3 /\ FreshAsr
    /\ \A i \in 1..2 :
          /\ Len(asrS[i].sent) >= 3
          /\ EndFrames(i) = {Len(asrS[i].sent)}
          /\ asrS[i].sent[2].frame.mtype = CLIENT_AUDIO_ONLY_REQUEST
          /\ asrS[i].sent[2].frame.seq = 2

\* C25: while the connection has no Recognition Session, no turn is under
\* way and nothing but the error message has been sent; an 'end' taken in
\* that state raises, no 'asr' message and no completion marker are sent,
\* the error message is the one message the client gets if it still accepts
\* it, and the handler ends with the shared HTTP session closed. It happens
\* in the first turn only: in a later turn the end frame goes on the session
\* the previous reset created, with sequence number -2 when no audio frame
\* went before it.
Thm_C25 ==
    /\ asr_client = 0
          => /\ pc \in {"recv", "err", "finally", "done"}
             /\ Count(out, "asr") = 0
             /\ Count(out, "over") = 0
             /\ asr_result = <<>>
             /\ \A i \in 1..Len(asrS) : EndFrames(i) = {}
    /\ exc = "AttributeError"
          => /\ asr_client = 0 /\ tts_client = 0
             /\ turn = 1
             /\ pc \in {"err", "done"}
             /\ pc = "err" => out = <<>>
             /\ pc = "done"
                   => /\ session_closed
                      /\ out = (IF client_open
                                THEN <<Msg("error", "AttributeError")>>
                                ELSE <<>>)
    /\ \A i \in 1..Len(asrS) :
          \A k \in EndFrames(i) :
              /\ asrS[i].sent[k].frame.seq = -k
              /\ asrS[i].sent[k].turn > 1
                    => /\ i > 1
                       /\ EndFrames(i - 1) # {}
                       /\ asrS[i].sent[1].turn = asrS[i].sent[k].turn - 1

\* the first message of the connection was 'end': one error message, and
\* the handler has ended
Wit_C25 ==
    /\ pc = "done" /\ exc = "AttributeError"
    /\ out = <<Msg("error", "AttributeError")>>
    /\ asrS = <<>> /\ session_closed

\* a second turn whose 'end' came with no audio before it: the end frame
\* went out on the second session with sequence number -2
Wit_C25_later ==
    /\ Len(asrS) >= 2
    /\ Len(asrS[2].sent) = 2
    /\ asrS[2].sent[2].frame.seq = -2
    /\ asrS[2].sent[2].turn = 2
    /\ asrS[1].sent # <<>> /\ Last(asrS[1].sent).frame.seq < 0

====
